---- MODULE Spec2Model ----
(***************************************************************************)
(* NetworkedFS (fusetry.py): a FUSE filesystem whose files live on a       *)
(* remote host reached with ssh/scp, with a local cache directory, a table *)
(* of open files and a set of modified paths.                              *)
(*                                                                         *)
(* The mount is single-threaded (FUSE(..., nothreads=True)), so every      *)
(* handler runs to completion: one action per handler.  Every remote call  *)
(* (ssh or scp) may fail; the outcome of each call of a handler is an      *)
(* input of the action (net, net1, net2, net3).                            *)
(*                                                                         *)
(* The modelled namespace is the root directory and the paths directly     *)
(* under it, so os.makedirs(os.path.dirname(cache_path)) always finds the  *)
(* cache root that __init__ created and changes nothing.  "/a" is a name   *)
(* for regular files and "/d" a directory of the remote host; the handlers *)
(* that move file content are exercised on "/a".                           *)
(***************************************************************************)
EXTENDS Integers, Sequences, FiniteSets, TLC

\* ---------------------------------------------------------------- bounds
MaxLen == 2          \* longest file content
MaxHandles == 2      \* most entries of open_files

\* ------------------------------------------------------------ namespace
Root == "/"
NonRoot == {"/a", "/d"}
Paths == {Root} \cup NonRoot
DataPaths == {"/a"}                  \* the paths file content is moved on
DirPaths == {"/d"}                   \* the directories of the remote host
PathOrder == <<"/a", "/d">>          \* the order ls sorts the entries in
BaseName == [p \in NonRoot |-> IF p = "/a" THEN "a" ELSE "d"]
RemoteRoot == "/data"

Bytes == {0, 1}                       \* 0 is the byte a hole is filled with
Content == UNION {[1..n -> Bytes] : n \in 0..MaxLen}
\* What a path holds, in the cache directory or on the remote host.
File(c) == [kind |-> "file", data |-> c]
NoFile == [kind |-> "none", data |-> <<>>]     \* no entry at this path
Dir == [kind |-> "dir", data |-> <<>>]         \* a directory at this path
Handles == 0..(MaxHandles - 1)
Flags == {0}                          \* os.O_RDONLY
None == "None"                        \* Python's None
XattrNames == {"security.capability"} \* the attribute names asked for

VARIABLES
  cache,            \* cache_dir: path -> content of the cached file, or NoFile
  remote,           \* remote host: path -> content, Dir or NoFile
  open_files,       \* self.open_files: fh -> [path, flags]
  modified_files,   \* self.modified_files
  last,             \* the last step: operation, arguments, return value or fault
  scen              \* progress of a create / write at 0 / release sequence

vars == <<cache, remote, open_files, modified_files, last, scen>>

IsFile(x) == x.kind = "file"

\* A cache that never reports a file as present.
exists_never(path) == FALSE

\* os.path.exists(cache_path)
exists(path) == cache[path] # NoFile

\* A getattr without the shortcut for the root.
is_root_never(path) == FALSE

\* path == '/'
is_root(path) == path = Root

\* A handler that forgets to track the path.
modified_files_add_nothing(path) == modified_files

\* self.modified_files.add(path)
modified_files_add(path) == modified_files \cup {path}

\* ------------------------------------------------------ path translation
clean_path(path) == IF path = Root THEN "" ELSE BaseName[path]

_get_remote_path(path) == RemoteRoot \o "/" \o clean_path(path)

\* ------------------------------------------------------ remote transport
\* What is at a path on the remote host; the remote root is a directory.
RemoteAt(path) == IF path = Root THEN Dir ELSE remote[path]

\* ssh host command: stdout.strip() when the exit status is 0, else None.
\* status is the exit status of the remote command, net whether ssh got
\* through.  The result is [none |-> TRUE] for None, else its output.
_run_ssh_command(net, status, stdout) ==
  IF net /\ status = 0 THEN [none |-> FALSE, out |-> stdout]
  ELSE [none |-> TRUE, out |-> None]

\* test -d 'remote_path' && echo 'exists'
_check_remote_dir_exists(path, net) ==
  LET result == _run_ssh_command(net, IF RemoteAt(path) = Dir THEN 0 ELSE 1,
                                 "exists")
  IN ~result.none /\ result.out = "exists"

\* An existence probe that takes a failed command for a positive answer.
_check_remote_file_exists_failopen(path, net) ==
  LET result == _run_ssh_command(net, IF IsFile(RemoteAt(path)) THEN 0 ELSE 1,
                                 "exists")
  IN result.none \/ result.out = "exists"

\* test -f 'remote_path' && echo 'exists'
_check_remote_file_exists(path, net) ==
  LET result == _run_ssh_command(net, IF IsFile(RemoteAt(path)) THEN 0 ELSE 1,
                                 "exists")
  IN ~result.none /\ result.out = "exists"

\* scp host:remote_path cache_path exits 0 iff ssh got through and the
\* remote path is a regular file (scp without -r refuses a directory).
ScpFetchOk(path, net) == net /\ IsFile(RemoteAt(path))

\* An scp that leaves an empty local file behind when it fails.
ScpFetch_partial(path, net) ==
  IF ScpFetchOk(path, net) THEN [cache EXCEPT ![path] = remote[path]]
  ELSE [cache EXCEPT ![path] = File(<<>>)]

\* The cache after scp host:remote_path cache_path.
ScpFetch(path, net) ==
  IF ScpFetchOk(path, net) THEN [cache EXCEPT ![path] = remote[path]] ELSE cache

\* _fetch_file returns True iff scp exited 0.
_fetch_file(path, net) == ScpFetchOk(path, net)

\* The remote host after scp cache_path host:remote_path that exited 0.  A
\* copy onto an existing remote directory lands inside that directory,
\* outside the modelled namespace, and leaves the entry a directory.
ScpPush(path) ==
  IF remote[path] = Dir THEN remote ELSE [remote EXCEPT ![path] = cache[path]]

\* _sync_to_remote returns True iff the cache file exists and scp exited 0.
_sync_to_remote(path, net) == exists(path) /\ net

\* ------------------------------------------------------------ local file
\* A read that ignores size and reads to the end of the file.
f_read_to_end(content, size, offset) ==
  SubSeq(content, offset + 1, Len(content))

\* A read that starts one byte late.
f_read_late(content, size, offset) ==
  SubSeq(content, offset + 2,
         IF offset + size < Len(content) THEN offset + size ELSE Len(content))

\* f.seek(offset); f.read(size)
f_read(content, size, offset) ==
  SubSeq(content, offset + 1,
         IF offset + size < Len(content) THEN offset + size ELSE Len(content))

\* f.seek(offset); f.write(data): a hole before offset reads as zeros.
f_write(content, data, offset) ==
  LET n == IF offset + Len(data) > Len(content)
           THEN offset + Len(data) ELSE Len(content)
  IN [i \in 1..n |->
        IF i > offset /\ i <= offset + Len(data) THEN data[i - offset]
        ELSE IF i <= Len(content) THEN content[i] ELSE 0]

\* f.truncate(length)
f_truncate(content, length) ==
  [i \in 1..length |-> IF i <= Len(content) THEN content[i] ELSE 0]

\* --------------------------------------------------------------- records
NoScen == [stage |-> 0, path |-> Root, data |-> <<>>, pushed |-> FALSE]

\* The record of a step.  err = "" when the handler returned ret; otherwise
\* err names the exception and ret is None.  calls lists the remote
\* commands the handler issued, in order, each with whether it exited 0.
Step(op, path, args, ret, err, calls) ==
  [op |-> op, path |-> path, args |-> args, ret |-> ret, err |-> err,
   calls |-> calls]

Call(cmd, ok) == <<cmd, ok>>

DirAttrs == [st_mode |-> "S_IFDIR|0o755", st_nlink |-> 2, st_size |-> 4096]
RegAttrs(size) == [st_mode |-> "S_IFREG|0o644", st_nlink |-> 1, st_size |-> size]

Init ==
  /\ cache = [p \in NonRoot |-> NoFile]
  /\ remote \in {r \in [NonRoot -> {NoFile, Dir, File(<<>>), File(<<1>>)}] :
                   \A p \in NonRoot : r[p] = Dir <=> p \in DirPaths}
  /\ open_files = <<>>
  /\ modified_files = {}
  /\ last = Step("__init__", Root, <<>>, None, "", <<Call("test -d", TRUE), Call("ls -la", TRUE)>>)
  /\ scen = NoScen

\* ------------------------------------------------------------- handlers
\* A create that makes no file.
touch_nothing(path) == cache

\* open(cache_path, 'a').close(): an empty file unless there is one already.
touch(path) == [cache EXCEPT ![path] = IF @ = NoFile THEN File(<<>>) ELSE @]

\* A write that tracks the path before it opens the cache file.
write_marks_first(path, data, offset) ==
  /\ offset + Len(data) <= MaxLen
  /\ modified_files' = modified_files_add(path)
  /\ IF ~exists(path)
     THEN /\ last' = Step("write", path, <<data, offset>>, None,
                          "FileNotFoundError", <<>>)
          /\ scen' = NoScen
          /\ UNCHANGED cache
     ELSE /\ cache' = [cache EXCEPT ![path] = File(f_write(@.data, data, offset))]
          /\ last' = Step("write", path, <<data, offset>>, Len(data), "", <<>>)
          /\ scen' = IF scen.stage = 1 /\ scen.path = path /\ offset = 0
                     THEN [scen EXCEPT !.stage = 2, !.data = data]
                     ELSE NoScen
  /\ UNCHANGED <<remote, open_files>>

\* create(path, mode): open(cache_path, 'a').close() keeps an existing
\* cache file as it is; no entry is added to open_files; returns 0.
create(path) ==
  /\ cache' = touch(path)
  /\ modified_files' = modified_files_add(path)
  /\ last' = Step("create", path, <<>>, 0, "", <<>>)
  /\ scen' = [stage |-> 1, path |-> path, data |-> <<>>, pushed |-> FALSE]
  /\ UNCHANGED <<remote, open_files>>

\* open(path, flags): fetch when the cache file is missing and the remote
\* file exists (the result of the fetch is ignored); fh = len(open_files).
open(path, flags, net1, net2) ==
  LET probe == ~exists(path)
      fetch == probe /\ _check_remote_file_exists(path, net1)
      fh == Cardinality(DOMAIN open_files)
  IN /\ fh < MaxHandles
     /\ cache' = IF fetch THEN ScpFetch(path, net2) ELSE cache
     /\ open_files' = (fh :> [path |-> path, flags |-> flags]) @@ open_files
     /\ last' = Step("open", path, <<flags>>, fh, "",
                     (IF probe THEN <<Call("test -f", fetch)>> ELSE <<>>)
                       \o (IF fetch
                           THEN <<Call("scp get", _fetch_file(path, net2))>>
                           ELSE <<>>))
     /\ scen' = NoScen
     /\ UNCHANGED <<remote, modified_files>>

\* write(path, data, offset, fh): open(cache_path, 'rb+') raises
\* FileNotFoundError when the cache file is missing.
write(path, data, offset) ==
  /\ offset + Len(data) <= MaxLen
  /\ IF ~exists(path)
     THEN /\ last' = Step("write", path, <<data, offset>>, None,
                          "FileNotFoundError", <<>>)
          /\ scen' = NoScen
          /\ UNCHANGED <<cache, modified_files>>
     ELSE /\ cache' = [cache EXCEPT ![path] = File(f_write(@.data, data, offset))]
          /\ modified_files' = modified_files_add(path)
          /\ last' = Step("write", path, <<data, offset>>, Len(data), "", <<>>)
          /\ scen' = IF scen.stage = 1 /\ scen.path = path /\ offset = 0
                     THEN [scen EXCEPT !.stage = 2, !.data = data]
                     ELSE NoScen
  /\ UNCHANGED <<remote, open_files>>

\* A release that pushes the cache file whether the path is modified or not.
release_always_push(path, fh, net) ==
  LET synced == _sync_to_remote(path, net)
  IN /\ remote' = IF synced THEN ScpPush(path) ELSE remote
     /\ modified_files' = modified_files \ {path}
     /\ open_files' = [h \in DOMAIN open_files \ {fh} |-> open_files[h]]
     /\ last' = Step("release", path, <<fh>>, 0, "",
                     IF exists(path)
                     THEN <<Call("scp put", synced)>> ELSE <<>>)
     /\ scen' = IF scen.stage = 2 /\ scen.path = path
                THEN [scen EXCEPT !.stage = 3, !.pushed = synced]
                ELSE NoScen
     /\ UNCHANGED cache

\* release(path, fh): a modified path is pushed and then removed from
\* modified_files whatever _sync_to_remote returned; always returns 0.
release(path, fh, net) ==
  LET dirty == path \in modified_files
      synced == dirty /\ _sync_to_remote(path, net)
  IN /\ remote' = IF synced THEN ScpPush(path) ELSE remote
     /\ modified_files' = modified_files \ {path}
     /\ open_files' = [h \in DOMAIN open_files \ {fh} |-> open_files[h]]
     /\ last' = Step("release", path, <<fh>>, 0, "",
                     IF dirty /\ exists(path)
                     THEN <<Call("scp put", synced)>> ELSE <<>>)
     /\ scen' = IF scen.stage = 2 /\ scen.path = path
                THEN [scen EXCEPT !.stage = 3, !.pushed = synced]
                ELSE NoScen
     /\ UNCHANGED cache

\* truncate(path, length): fetch on a miss as in open, then
\* open(cache_path, 'r+b') raises FileNotFoundError without a cache file.
truncate(path, length, net1, net2) ==
  LET probe == ~exists(path)
      fetch == probe /\ _check_remote_file_exists(path, net1)
      fetched == IF fetch THEN ScpFetch(path, net2) ELSE cache
      calls == (IF probe THEN <<Call("test -f", fetch)>> ELSE <<>>)
                 \o (IF fetch
                     THEN <<Call("scp get", _fetch_file(path, net2))>>
                     ELSE <<>>)
  IN /\ IF fetched[path] = NoFile
        THEN /\ cache' = fetched
             /\ last' = Step("truncate", path, <<length>>, None,
                             "FileNotFoundError", calls)
             /\ UNCHANGED modified_files
        ELSE /\ cache' = [fetched EXCEPT
                            ![path] = File(f_truncate(@.data, length))]
             /\ modified_files' = modified_files_add(path)
             /\ last' = Step("truncate", path, <<length>>, 0, "", calls)
     /\ scen' = NoScen
     /\ UNCHANGED <<remote, open_files>>

\* A size taken from the cache file when there is one.
_get_remote_file_size_cached(path, net) ==
  IF exists(path) THEN Len(cache[path].data)
  ELSE IF net /\ IsFile(RemoteAt(path)) THEN Len(RemoteAt(path).data) ELSE 0

\* _get_remote_file_size: ls -l 'remote_path' | awk '{print $5}'; the
\* pipeline exits with awk's status; the output is the list of the fields
\* awk printed (none when ls failed); no output or None gives 0.
_get_remote_file_size(path, net) ==
  LET size_str == _run_ssh_command(net, 0,
                    IF IsFile(RemoteAt(path)) THEN <<Len(RemoteAt(path).data)>>
                    ELSE <<>>)
  IN IF size_str.none \/ size_str.out = <<>> THEN 0 ELSE size_str.out[1]

\* getattr(path)
getattr(path, net1, net2, net3) ==
  LET isdir == _check_remote_dir_exists(path, net1)
      isfile == _check_remote_file_exists(path, net2)
      size == _get_remote_file_size(path, net3)
  IN /\ last' =
          IF is_root(path)
          THEN Step("getattr", path, <<>>, DirAttrs, "", <<>>)
          ELSE IF isdir
          THEN Step("getattr", path, <<>>, DirAttrs, "",
                    <<Call("test -d", TRUE)>>)
          ELSE IF isfile
          THEN Step("getattr", path, <<>>, RegAttrs(size), "",
                    <<Call("test -d", FALSE), Call("test -f", TRUE),
                      Call("ls -l", net3)>>)
          ELSE Step("getattr", path, <<>>, None, "ENOENT",
                    <<Call("test -d", FALSE), Call("test -f", FALSE)>>)
     /\ scen' = NoScen
     /\ UNCHANGED <<cache, remote, open_files, modified_files>>

\* read(path, size, offset, fh): scp on a miss, EIO when it fails.
read(path, size, offset, net) ==
  LET miss == ~exists(path)
      fetched == IF miss THEN ScpFetch(path, net) ELSE cache
      calls == IF miss THEN <<Call("scp get", ScpFetchOk(path, net))>> ELSE <<>>
  IN /\ cache' = fetched
     /\ last' = IF miss /\ ~ScpFetchOk(path, net)
                THEN Step("read", path, <<size, offset>>, None, "EIO", calls)
                ELSE Step("read", path, <<size, offset>>,
                          f_read(fetched[path].data, size, offset), "", calls)
     /\ scen' = NoScen
     /\ UNCHANGED <<remote, open_files, modified_files>>

\* ls -1a 'remote_path': ".", ".." and the entries of a directory in sorted
\* order; the path itself for a regular file; exit status 2 for no entry.
ls_1a_status(path) == IF RemoteAt(path) = NoFile THEN 2 ELSE 0

\* ls -1d: names the directory itself instead of listing it.
ls_1d(path) == <<_get_remote_path(path)>>

ls_1a(path) ==
  IF RemoteAt(path) = Dir
  THEN <<".", "..">> \o
       (IF path = Root
        THEN SelectSeq([i \in 1..Len(PathOrder) |-> BaseName[PathOrder[i]]],
                       LAMBDA n : \E p \in NonRoot :
                                    BaseName[p] = n /\ remote[p] # NoFile)
        ELSE <<>>)
  ELSE <<_get_remote_path(path)>>

\* A readdir that appends every line of the listing.
entries_unfiltered(result) ==
  IF result.none \/ result.out = <<>> THEN <<>> ELSE result.out

\* The entries readdir appends: the non-empty lines other than "." and "..".
entries(result) ==
  IF result.none \/ result.out = <<>> THEN <<>>
  ELSE SelectSeq(result.out, LAMBDA e : e # "" /\ e \notin {".", ".."})

\* readdir(path, fh)
readdir(path, net) ==
  LET result == _run_ssh_command(net, ls_1a_status(path), ls_1a(path))
  IN /\ last' = Step("readdir", path, <<>>, <<".", "..">> \o entries(result),
                     "", <<Call("ls -1a", ~result.none)>>)
     /\ scen' = NoScen
     /\ UNCHANGED <<cache, remote, open_files, modified_files>>

\* getxattr(path, name): NetworkedFS defines no getxattr, so the handler is
\* the one it inherits from fuse.Operations, which raises
\* FuseOSError(ENOTSUP).
getxattr(path, name) ==
  /\ last' = Step("getxattr", path, <<name>>, None, "ENOTSUP", <<>>)
  /\ scen' = NoScen
  /\ UNCHANGED <<cache, remote, open_files, modified_files>>

\* ----------------------------------------------------------- environment
\* Somebody else adds, replaces or removes a regular file on the remote
\* host.
remote_change(path, x) ==
  /\ remote[path] # x
  /\ remote' = [remote EXCEPT ![path] = x]
  /\ last' = Step("remote_change", path, <<>>, None, "", <<>>)
  /\ scen' = NoScen
  /\ UNCHANGED <<cache, open_files, modified_files>>

Next ==
  \/ \E p \in DataPaths : create(p)
  \/ \E p \in NonRoot, fl \in Flags, n1, n2 \in BOOLEAN : open(p, fl, n1, n2)
  \/ \E p \in DataPaths, d \in Content \ {<<>>}, o \in 0..MaxLen : write(p, d, o)
  \/ \E p \in NonRoot, fh \in Handles, n \in BOOLEAN : release(p, fh, n)
  \/ \E p \in DataPaths, l \in 0..MaxLen, n1, n2 \in BOOLEAN :
        truncate(p, l, n1, n2)
  \/ \E p \in Paths, n1, n2, n3 \in BOOLEAN : getattr(p, n1, n2, n3)
  \/ \E p \in DataPaths, s \in 0..MaxLen, o \in 0..MaxLen, n \in BOOLEAN :
        read(p, s, o, n)
  \/ \E p \in Paths, n \in BOOLEAN : readdir(p, n)
  \/ \E p \in Paths, x \in XattrNames : getxattr(p, x)
  \/ \E p \in DataPaths, c \in Content : remote_change(p, File(c))
  \/ \E p \in DataPaths : remote_change(p, NoFile)

Spec == Init /\ [][Next]_vars

\* The mount with a transport on which every scp gets through and a remote
\* host that nobody else changes.  The ssh probes may still fail.
NextReliable ==
  \/ \E p \in DataPaths : create(p)
  \/ \E p \in NonRoot, fl \in Flags, n1 \in BOOLEAN : open(p, fl, n1, TRUE)
  \/ \E p \in DataPaths, d \in Content \ {<<>>}, o \in 0..MaxLen : write(p, d, o)
  \/ \E p \in NonRoot, fh \in Handles : release(p, fh, TRUE)
  \/ \E p \in DataPaths, l \in 0..MaxLen, n1 \in BOOLEAN :
        truncate(p, l, n1, TRUE)
  \/ \E p \in Paths, n1, n2, n3 \in BOOLEAN : getattr(p, n1, n2, n3)
  \/ \E p \in DataPaths, s \in 0..MaxLen, o \in 0..MaxLen : read(p, s, o, TRUE)
  \/ \E p \in Paths, n \in BOOLEAN : readdir(p, n)
  \/ \E p \in Paths, x \in XattrNames : getxattr(p, x)

SpecReliable == Init /\ [][NextReliable]_vars

\* ------------------------------------------------------------ properties
Range(f) == {f[i] : i \in DOMAIN f}

\* The step l issued the remote command cmd.
Issued(l, cmd) == \E i \in DOMAIN l.calls : l.calls[i][1] = cmd

\* The step l issued the remote command cmd and it exited 0 (ok) or not.
IssuedWith(l, cmd, ok) == Call(cmd, ok) \in Range(l.calls)

TypeOK ==
  /\ cache \in [NonRoot -> {NoFile} \cup {File(c) : c \in Content}]
  /\ remote \in [NonRoot -> {NoFile, Dir} \cup {File(c) : c \in Content}]
  /\ modified_files \subseteq NonRoot
  /\ DOMAIN open_files \subseteq Handles

\* C1: a path leaves modified_files only in a release of that path whose push
\* (scp to the remote host) succeeded.
C1_DirtyClearedOnlyByPush ==
  [][\A p \in NonRoot :
       (p \in modified_files /\ p \notin modified_files')
         => /\ last'.op = "release"
            /\ last'.path = p
            /\ IssuedWith(last', "scp put", TRUE)]_vars

\* C2: a release whose push failed does not return the success status 0.
C2_ReleaseReportsFailedPush ==
  (last.op = "release" /\ IssuedWith(last, "scp put", FALSE))
    => ~(last.err = "" /\ last.ret = 0)

\* C3: after create(P), write(P, B, 0), release(P) in a row, with a push that
\* succeeded, the remote copy of P is exactly B.
C3_CreateWriteReleaseRemote ==
  (scen.stage = 3 /\ scen.pushed) => remote[scen.path] = File(scen.data)

\* C4: a read(P, len(B), 0) that fetched the remote file P with content B
\* returns B and leaves a cache entry for P with content B.
C4_FetchThenRead ==
  \A p \in NonRoot :
    (/\ last.op = "read" /\ last.path = p
     /\ IssuedWith(last, "scp get", TRUE)
     /\ last.args = <<Len(remote[p].data), 0>>)
      => /\ last.err = ""
         /\ last.ret = remote[p].data
         /\ cache[p] = File(remote[p].data)

C4_Witness ==
  /\ last.op = "read" /\ last.path = "/a"
  /\ IssuedWith(last, "scp get", TRUE)
  /\ last.args = <<2, 0>>
  /\ remote["/a"] = File(<<1, 0>>)
  /\ last.ret = <<1, 0>>

\* C5: a read of a path that has a cache entry issues no fetch, and a cache
\* entry is never removed, so after a fetch of P no read of P fetches again.
C5_NoFetchOnCacheHit ==
  [][\A p \in NonRoot :
       /\ (last'.op = "read" /\ last'.path = p /\ cache[p] # NoFile)
            => ~Issued(last', "scp get")
       /\ (cache[p] # NoFile => cache'[p] # NoFile)]_vars

C5_Witness ==
  /\ last.op = "read" /\ last.err = "" /\ last.calls = <<>>
  /\ cache[last.path] = remote[last.path]
  /\ Len(last.ret) > 0

\* C6: getattr of a non-root path that is in neither the cache nor the remote
\* host raises ENOENT.
C6_GetattrAbsent ==
  \A p \in NonRoot :
    (/\ last.op = "getattr" /\ last.path = p
     /\ cache[p] = NoFile /\ remote[p] = NoFile)
      => last.err = "ENOENT"

C6_Witness ==
  /\ last.op = "getattr" /\ last.path = "/a" /\ last.err = "ENOENT"
  /\ cache["/a"] = NoFile /\ remote["/a"] = NoFile
  /\ IssuedWith(last, "test -f", FALSE)

\* C7: open of a path that is in neither the cache nor the remote host raises
\* ENOENT and leaves open_files unchanged.
C7_OpenAbsent ==
  [][\A p \in NonRoot :
       (/\ last'.op = "open" /\ last'.path = p
        /\ cache[p] = NoFile /\ remote[p] = NoFile)
         => (last'.err = "ENOENT" /\ open_files' = open_files)]_vars

\* C8: open never returns a handle that is in open_files already.
C8_FreshHandle ==
  [][(last'.op = "open" /\ last'.err = "")
       => last'.ret \notin DOMAIN open_files]_vars

\* C9: getattr("/") returns directory attributes and issues no remote
\* command, whatever the state.
C9_RootIsDirectory ==
  (last.op = "getattr" /\ last.path = Root)
    => /\ last.err = ""
       /\ last.ret.st_mode = "S_IFDIR|0o755"
       /\ last.calls = <<>>

C9_Witness ==
  /\ last.op = "getattr" /\ last.path = Root
  /\ last.ret = DirAttrs
  /\ modified_files # {} /\ DOMAIN open_files # {}
  /\ cache["/a"] # NoFile /\ remote["/a"] = NoFile

\* The names readdir of the root has to return for the remote host as it is.
RemoteNames == {BaseName[p] : p \in {q \in NonRoot : remote[q] # NoFile}}

\* C10 as stated: every readdir issues the listing command and returns the
\* names that are on the remote host at that call.
C10_ReaddirLive ==
  (last.op = "readdir" /\ last.path = Root)
    => /\ Issued(last, "ls -1a")
       /\ Range(last.ret) = {".", ".."} \cup RemoteNames

\* C10 amended: every readdir issues the listing command; when the command
\* succeeds readdir returns the names that are on the remote host at that
\* call, and when it fails only "." and "..".
C10_ReaddirLiveWhenListed ==
  (last.op = "readdir" /\ last.path = Root)
    => /\ Len(last.calls) = 1 /\ Issued(last, "ls -1a")
       /\ IssuedWith(last, "ls -1a", TRUE)
            => Range(last.ret) = {".", ".."} \cup RemoteNames
       /\ IssuedWith(last, "ls -1a", FALSE) => last.ret = <<".", "..">>

C10_Witness ==
  /\ last.op = "readdir" /\ last.path = Root
  /\ IssuedWith(last, "ls -1a", TRUE)
  /\ last.ret = <<".", "..", "a", "d">>
  /\ cache["/a"] = NoFile

\* C11: getattr of a non-root path that is a regular file in the cache only
\* (created locally, not on the remote host) returns regular-file attributes.
C11_GetattrCachedFile ==
  \A p \in NonRoot :
    (/\ last.op = "getattr" /\ last.path = p
     /\ IsFile(cache[p]) /\ remote[p] = NoFile)
      => (last.err = "" /\ last.ret.st_mode = "S_IFREG|0o644")

\* C12: read of a path that is in neither the cache nor the remote host
\* raises ENOENT.
C12_ReadAbsent ==
  \A p \in NonRoot :
    (/\ last.op = "read" /\ last.path = p
     /\ cache[p] = NoFile /\ remote[p] = NoFile)
      => last.err = "ENOENT"

\* C13: every handler ends with a return value or with ENOENT or EIO.
C13_FaultVocabulary ==
  last.err \in {"", "ENOENT", "EIO"}

\* C14: create returns a handle that is in open_files with the created path,
\* and an entry leaves open_files only in a release with that handle.
C14_CreateAllocatesHandle ==
  [][/\ last'.op = "create"
          => /\ last'.ret \in DOMAIN open_files'
             /\ open_files'[last'.ret].path = last'.path
     /\ \A h \in DOMAIN open_files :
          h \notin DOMAIN open_files'
            => (last'.op = "release" /\ last'.args = <<h>>)]_vars

\* C15 as stated: a path enters modified_files only in a write or a truncate
\* of it, and a release that follows create of the same path directly issues
\* no push.
C15_DirtyOnlyByWrite ==
  [][/\ \A p \in NonRoot :
          (p \notin modified_files /\ p \in modified_files')
            => (last'.op \in {"write", "truncate"} /\ last'.path = p)
     /\ (last.op = "create" /\ last'.op = "release" /\ last'.path = last.path)
          => ~Issued(last', "scp put")]_vars

\* C15 amended: a path enters modified_files only in a create, a write or a
\* truncate of it that returned, and a release that follows create of the
\* same path directly issues the push.
C15_DirtyByCreateWriteTruncate ==
  [][/\ \A p \in NonRoot :
          (p \notin modified_files /\ p \in modified_files')
            => /\ last'.op \in {"create", "write", "truncate"}
               /\ last'.path = p
               /\ last'.err = ""
     /\ (last.op = "create" /\ last'.op = "release" /\ last'.path = last.path)
          => Issued(last', "scp put")]_vars

C15_Witness ==
  /\ last.op = "create" /\ last.path = "/a"
  /\ "/a" \in modified_files
  /\ cache["/a"] = File(<<>>)
  /\ remote["/a"] = NoFile
  /\ DOMAIN open_files # {}

\* C16: a write to a path without cache file whose remote file exists fetches
\* it first; when the fetch succeeds the write is applied to the fetched
\* copy, returns len(data) and leaves the path in modified_files.
C16_WriteFetchOnMiss ==
  [][\A p \in NonRoot :
       (/\ last'.op = "write" /\ last'.path = p
        /\ cache[p] = NoFile /\ IsFile(remote[p]))
         => /\ Issued(last', "scp get")
            /\ IssuedWith(last', "scp get", TRUE)
                 => /\ last'.err = ""
                    /\ last'.ret = Len(last'.args[1])
                    /\ cache'[p] = File(f_write(remote[p].data,
                                                last'.args[1], last'.args[2]))
                    /\ p \in modified_files']_vars

\* The place of a name in the order ls lists names in.
NameIndex(n) == CHOOSE k \in 1..Len(PathOrder) : BaseName[PathOrder[k]] = n

C18_GetxattrEmpty ==
  last.op = "getxattr" => (last.err = "" /\ last.ret = <<>>)

\* C19: a read of a path with a cache file returns the bytes of the cache
\* file from offset up to min(offset + size, length), never raises, and
\* changes neither cache, remote host, open_files nor modified_files.
C19_ReadCached ==
  [][\A p \in NonRoot :
       (last'.op = "read" /\ last'.path = p /\ cache[p] # NoFile)
         => LET size == last'.args[1]
                offset == last'.args[2]
                content == cache[p].data
                end == IF offset + size < Len(content)
                       THEN offset + size ELSE Len(content)
            IN /\ last'.err = ""
               /\ Len(last'.ret) = (IF end > offset THEN end - offset ELSE 0)
               /\ \A i \in 1..Len(last'.ret) : last'.ret[i] = content[offset + i]
               /\ UNCHANGED <<cache, remote, open_files, modified_files>>]_vars

C19_Witness ==
  /\ last.op = "read" /\ last.path = "/a" /\ last.calls = <<>>
  /\ last.args = <<2, 1>>
  /\ cache["/a"] = File(<<0, 1>>)
  /\ last.ret = <<1>>
  /\ "/a" \in modified_files

C21_RemoteChangedOnlyByPush ==
  [][/\ (remote' # remote /\ last'.op # "remote_change")
          => /\ last'.op = "release"
             /\ last'.path \in modified_files
             /\ IssuedWith(last', "scp put", TRUE)
             /\ \A p \in NonRoot \ {last'.path} : remote'[p] = remote[p]
     /\ (last'.op = "release" /\ last'.path \notin modified_files)
          => (~Issued(last', "scp put") /\ remote' = remote)]_vars

C21_Witness ==
  /\ last.op = "release" /\ last.path = "/a" /\ last.calls = <<>>
  /\ cache["/a"] = File(<<1, 1>>)
  /\ remote["/a"] = File(<<0>>)

\* C22: when getattr reports a regular file, st_size is the size the remote
\* host has for it when the size query succeeded and 0 when it failed,
\* whatever the cache file holds.
C22_GetattrRemoteSize ==
  \A p \in NonRoot :
    (last.op = "getattr" /\ last.path = p /\ IsFile(remote[p]))
      => /\ last.err \in {"", "ENOENT"}
         /\ last.err = ""
              => /\ last.ret.st_mode = "S_IFREG|0o644"
                 /\ IssuedWith(last, "ls -l", TRUE)
                      => last.ret.st_size = Len(remote[p].data)
                 /\ IssuedWith(last, "ls -l", FALSE) => last.ret.st_size = 0
                 /\ Issued(last, "ls -l")

C22_Witness ==
  /\ last.op = "getattr" /\ last.path = "/a" /\ last.err = ""
  /\ IssuedWith(last, "ls -l", TRUE)
  /\ remote["/a"] = File(<<1>>)
  /\ cache["/a"] = File(<<0, 0>>)
  /\ "/a" \in modified_files
  /\ last.ret.st_size = 1

C24_ModifiedHasCacheFile ==
  \A p \in modified_files : cache[p] # NoFile

C24_Witness ==
  /\ last.op = "truncate" /\ last.err = ""
  /\ IssuedWith(last, "scp get", TRUE)
  /\ "/a" \in modified_files
  /\ cache["/a"] = File(<<1, 0>>)

\* C25, for a release that directly follows the create or open that returned
\* its handle: the release removes from open_files only an entry whose path
\* is the released path.
C25_ReleaseRemovesOwnEntry ==
  [][(/\ last.op \in {"create", "open"} /\ last.err = ""
      /\ last'.op = "release"
      /\ last'.path = last.path
      /\ last'.args = <<last.ret>>)
       => \A h \in DOMAIN open_files \ DOMAIN open_files' :
            open_files[h].path = last'.path]_vars

\* C26: every entry of open_files names a path that has a cache file.
C26_OpenHasCacheFile ==
  \A h \in DOMAIN open_files : cache[open_files[h].path] # NoFile

\* C27: a write or truncate that fails for want of a cache file changes
\* neither modified_files, open_files, the cache nor the remote host.
C27_FailedWriteChangesNothing ==
  [][(last'.op \in {"write", "truncate"} /\ last'.err = "FileNotFoundError")
       => /\ UNCHANGED <<modified_files, open_files, cache, remote>>
          /\ last'.path \notin modified_files'
          /\ cache'[last'.path] = NoFile]_vars

C27_Witness ==
  /\ last.op = "truncate" /\ last.err = "FileNotFoundError"
  /\ IssuedWith(last, "scp get", FALSE)
  /\ IsFile(remote["/a"])
  /\ cache["/a"] = NoFile
  /\ DOMAIN open_files # {}

====
